---- MODULE Spec2Model ----
(***************************************************************************)
(* A model of the Ursula log analyzer library (ursulalogcheck.c): the task *)
(* CSV loader, the log state machine of check_log, the condition           *)
(* evaluator, the satisfaction matrix and the result byte / signature.     *)
(*                                                                         *)
(* Abstractions.  Text lines are modelled already split into their fields  *)
(* (a record per line); coordinates lie on a small integer grid and        *)
(* distances are compared through their squares; hp, damage and condition  *)
(* arguments are small naturals; the digest is an uninterpreted tuple.     *)
(* Array indexes are 0-based as in the source (functions over 0..n-1).     *)
(***************************************************************************)
EXTENDS Integers, Sequences, FiniteSets, TLC

(***************************************************************************)
(* Program constants                                                       *)
(***************************************************************************)
MAX_CONDITIONS == 7
URSULA_CHECK_RESULT_ERROR == 0
URSULA_CHECK_NO_ERROR == 0
URSULA_CHECK_BAD_PARAMETERS == 1
URSULA_CHECK_FORMAT_ERROR == 2

\* a NULL pointer (char*, Object*, the objects array, the matrix)
NULL == "<null>"

CONDITION_TYPE_STR ==
    {"proxy", "approach", "retire", "move", "win", "attack", "damage", "destroy"}

OBJECT_TYPE_STR == {"player", "mob", "intobj", "static"}

\* unsigned char arithmetic
Byte(n) == n % 256

(***************************************************************************)
(* Bounds of the model                                                     *)
(***************************************************************************)
\* lines the log may hold after its preamble
MaxTail == 2
\* check_log calls made on one checker
MaxCalls == 2
\* largest value an uninitialised ObjectReq.found byte is given
MaxGarbage == 1
\* condition rows in an enumerated task CSV
MaxRows == 3
\* secret lines in a config file
MaxSecrets == 2
\* lines of an enumerated config file
MaxLines == 3
\* check_log calls under LiveSpec
MaxLiveCalls == 1

(***************************************************************************)
(* Math                                                                    *)
(***************************************************************************)
\* DIST(p1,p2)^2; DIST itself is the square root, compared through squares
Dist2(p1, p2) ==
    (p1[1] - p2[1]) * (p1[1] - p2[1]) + (p1[2] - p2[2]) * (p1[2] - p2[2])

\* DIST(p1,p2) <= a
DistLeq(p1, p2, a) == a >= 0 /\ Dist2(p1, p2) <= a * a

\* a variant that takes the largest element
SetMax(S) == CHOOSE x \in S : \A y \in S : y <= x

SetMin(S) == CHOOSE x \in S : \A y \in S : x <= y

(***************************************************************************)
(* The task CSV loader: cyberiada_ursula_log_task_config                   *)
(*                                                                         *)
(* A CSV is a sequence of data rows (header and blank lines, which both    *)
(* passes skip, are left out).  Rows:                                      *)
(*   [tag |-> "c", n, type, ptype, pclass, stype, sclass, arg]             *)
(*   [tag |-> "b", type, class, predef, pos, hp, damage]                   *)
(*   [tag |-> "r", type, class, minimum, limit, extra]                     *)
(* n, minimum and limit are the atoi values of their fields.               *)
(***************************************************************************)
RECURSIVE CountPass(_, _, _)
\* first pass: sizes of the three arrays; st = [b, r, c, last_n]
CountPass(rows, k, st) ==
    IF k > Len(rows) THEN st
    ELSE LET row == rows[k] IN
         CountPass(rows, k + 1,
            IF row.tag = "b" THEN [st EXCEPT !.b = @ + 1]
            ELSE IF row.tag = "r" THEN [st EXCEPT !.r = @ + 1]
            ELSE IF row.n > st.last_n
                 THEN [st EXCEPT !.last_n = row.n, !.c = @ + 1]
                 ELSE st)

\* a Condition as malloc'ed for an AND branch / as filled by a first row
NewCondition(row) ==
    [n |-> Byte(row.n), type |-> row.type,
     primary_obj_type |-> row.ptype, primary_obj_class |-> row.pclass,
     secondary_obj_type |-> row.stype, secondary_obj_class |-> row.sclass,
     argument |-> row.arg, second_cond |-> <<>>]

\* is the condition row refused while its fields are parsed?
BadConditionRow(row) ==
    \/ row.n <= 0
    \/ row.type \notin CONDITION_TYPE_STR
    \/ row.ptype # "" /\ row.ptype \notin OBJECT_TYPE_STR
    \/ row.stype # "" /\ row.stype \notin OBJECT_TYPE_STR

BadReqRow(row) ==
    \/ row.type \notin OBJECT_TYPE_STR
    \/ row.minimum <= 0
    \/ row.limit <= 0
    \/ row.extra # ""

BadBaseRow(row) ==
    \/ row.type \notin OBJECT_TYPE_STR
    \/ row.predef /\ row.pos = <<>>

\* does this condition row become the AND branch of the last stored one?
IsAndRow(conds, n) ==
    Len(conds) > 0 /\ n = conds[Len(conds)].n

RECURSIVE FillPass(_, _, _, _)
\* second pass: st = [conds, reqs, bases, overflow, err, classes];
\* conditions_cnt is Len(st.conds).  A write at conditions[conditions_cnt]
\* with conditions_cnt >= conditions_count lands outside the array
\* (overflow).  classes counts the object_reqs entries whose class pointer
\* has been written: a req row refused for its type has not written it.
FillPass(rows, k, count, st) ==
    IF k > Len(rows) \/ st.err THEN st
    ELSE LET row == rows[k] IN
      FillPass(rows, k + 1, count,
        IF row.tag = "c" THEN
            IF row.n <= 0 THEN [st EXCEPT !.err = TRUE]
            ELSE IF IsAndRow(st.conds, row.n) THEN
                IF BadConditionRow(row) THEN [st EXCEPT !.err = TRUE]
                ELSE [st EXCEPT !.conds[Len(st.conds)].second_cond =
                                    <<NewCondition(row)>>]
            ELSE LET over == Len(st.conds) >= count IN
                IF BadConditionRow(row)
                THEN [st EXCEPT !.err = TRUE, !.overflow = @ \/ over]
                ELSE [st EXCEPT !.conds = Append(@, NewCondition(row)),
                                !.overflow = @ \/ over]
        ELSE IF row.tag = "r" THEN
            IF BadReqRow(row)
            THEN [st EXCEPT !.err = TRUE,
                    !.classes = IF row.type \in OBJECT_TYPE_STR
                                THEN @ + 1 ELSE @]
            ELSE [st EXCEPT !.classes = @ + 1, !.reqs = Append(@,
                    [type |-> row.type, class |-> row.class,
                     minimum |-> Byte(row.minimum), limit |-> Byte(row.limit)])]
        ELSE
            IF BadBaseRow(row) THEN [st EXCEPT !.err = TRUE]
            ELSE [st EXCEPT !.bases = Append(@,
                    [type |-> row.type, class |-> row.class,
                     pos_predefined |-> row.predef, pos |-> row.pos,
                     hp |-> row.hp, damage |-> row.damage])])

\* the whole load: [res, task, overflow, garbage].  The arrays of
\* conditions and object_reqs are malloc'ed and only their first
\* sizeof(size_t) bytes are zeroed, so when the load is given up
\* cyberiada_ursula_log_destroy_tasks reads, in every entry the second pass
\* has not filled, pointers that were never written (garbage)
cyberiada_ursula_log_task_config(rows, name) ==
    LET cnt == CountPass(rows, 1, [b |-> 0, r |-> 0, c |-> 0, last_n |-> 0])
        st  == FillPass(rows, 1, cnt.c,
                 [conds |-> <<>>, reqs |-> <<>>, bases |-> <<>>,
                  overflow |-> FALSE, err |-> FALSE, classes |-> 0])
        bad == [res |-> URSULA_CHECK_BAD_PARAMETERS, task |-> NULL,
                overflow |-> FALSE, garbage |-> FALSE]
    IN  IF cnt.c = 0 \/ cnt.c > MAX_CONDITIONS THEN bad
        ELSE IF st.err \/ Len(st.conds) # cnt.c
                \/ Len(st.reqs) # cnt.r \/ Len(st.bases) # cnt.b
             THEN [bad EXCEPT !.overflow = st.overflow,
                              !.garbage = \/ Len(st.conds) < cnt.c
                                          \/ st.classes < cnt.r]
        ELSE [res |-> URSULA_CHECK_NO_ERROR,
              task |-> [name |-> name,
                        base_objects |-> st.bases,
                        object_reqs |-> st.reqs,
                        conditions |-> st.conds],
              overflow |-> st.overflow, garbage |-> FALSE]

(***************************************************************************)
(* The condition evaluator: cyberiada_test_condition                       *)
(*                                                                         *)
(* Objects are records [type, class, id, pos, prev_pos, hp, damage]; the   *)
(* objects array is a function over 0..objects_count-1.  An Object* is     *)
(* <<>> (NULL) or <<k>> (objects + k).                                     *)
(***************************************************************************)
\* type == t && (type == otPlayer || strcmp(class, c) == 0)
TypeClassEq(o, t, c) ==
    o.type = t /\ (o.type = "player" \/ o.class = c)

\* type == t && (type == otPlayer || strcmp(class, c))
TypeClassStrcmp(o, t, c) ==
    o.type = t /\ (o.type = "player" \/ o.class # c)

\* the relation the three pair kinds test on (primary i, secondary j)
PairRel(cond, oi, oj) ==
    CASE cond.type = "proxy" -> DistLeq(oi.pos, oj.pos, cond.argument)
      [] cond.type = "approach" ->
            Dist2(oi.pos, oj.pos) < Dist2(oi.prev_pos, oj.prev_pos)
      [] cond.type = "retire" ->
            Dist2(oi.pos, oj.pos) > Dist2(oi.prev_pos, oj.prev_pos)

\* the indexes i at which the scanning loops set found
ScanHits(cond, objects, objects_count) ==
    IF cond.type = "move"
    THEN {i \in 0..(objects_count - 1) :
            /\ TypeClassStrcmp(objects[i], cond.primary_obj_type,
                               cond.primary_obj_class)
            /\ Dist2(objects[i].pos, objects[i].prev_pos) > 0}
    ELSE {i \in 0..(objects_count - 1) :
            \E j \in 0..(objects_count - 1) :
                /\ i # j
                /\ TypeClassEq(objects[i], cond.primary_obj_type,
                               cond.primary_obj_class)
                /\ TypeClassEq(objects[j], cond.secondary_obj_type,
                               cond.secondary_obj_class)
                /\ PairRel(cond, objects[i], objects[j])}

\* the test of an event-carried kind against the event payload
EventHit(cond, objects, primary, secondary, argument, won) ==
    CASE cond.type = "attack" ->
            /\ primary # <<>> /\ secondary # <<>>
            /\ TypeClassEq(objects[primary[1]], cond.primary_obj_type,
                           cond.primary_obj_class)
            /\ TypeClassEq(objects[secondary[1]], cond.secondary_obj_type,
                           cond.secondary_obj_class)
            /\ cond.argument >= argument
      [] cond.type = "damage" ->
            /\ primary # <<>>
            /\ TypeClassStrcmp(objects[primary[1]], cond.primary_obj_type,
                               cond.primary_obj_class)
            /\ cond.argument >= argument
      [] cond.type = "destroy" ->
            /\ primary # <<>>
            /\ TypeClassStrcmp(objects[primary[1]], cond.primary_obj_type,
                               cond.primary_obj_class)
      [] cond.type = "win" -> won

ScanKinds == {"proxy", "approach", "retire", "move"}

\* a variant that hands the event payload on to the AND branch
cyberiada_test_condition_payload(cond, objects, objects_count, primary, primary_index, secondary, argument, won) ==
    LET Hits(c) == IF c.type \in ScanKinds
                   THEN ScanHits(c, objects, objects_count) ELSE {}
        Found(c) == IF c.type \in ScanKinds THEN Hits(c) # {}
                    ELSE EventHit(c, objects, primary, secondary, argument, won)
        Index(c, p) == IF c.type \in ScanKinds /\ objects_count > 0
                       THEN (IF Hits(c) # {} THEN SetMin(Hits(c))
                             ELSE objects_count - 1)
                       ELSE p
    IN  IF Found(cond) /\ cond.second_cond # <<>>
        THEN [found |-> Found(cond.second_cond[1]),
              primary_index |-> Index(cond.second_cond[1],
                                      Index(cond, primary_index))]
        ELSE [found |-> Found(cond),
              primary_index |-> Index(cond, primary_index)]

\* malloc(sizeof(Condition)) of an AND branch: the loader sets its n, its
\* classes and the fields its row gives, never its own second_cond, so that
\* pointer holds whatever the allocator left: NULL, or a wild pointer
Wild ==
    [n |-> 0, type |-> "wild", primary_obj_type |-> "", primary_obj_class |-> NULL,
     secondary_obj_type |-> "", secondary_obj_class |-> NULL, argument |-> 0,
     second_cond |-> <<>>]

\* the task as the loader leaves it in memory: g[k] tells whether the
\* uninitialised second_cond of the AND branch of conditions[k] is non-NULL
Allocated(t, g) ==
    [t EXCEPT !.conditions =
        [k \in 1..Len(t.conditions) |->
            IF t.conditions[k].second_cond # <<>> /\ g[k]
            THEN [t.conditions[k] EXCEPT !.second_cond =
                    << [t.conditions[k].second_cond[1] EXCEPT
                          !.second_cond = << Wild >>] >>]
            ELSE t.conditions[k]]]

\* the contents the allocator can leave in the AND branches of t
Leftovers(t) ==
    { g \in [1..Len(t.conditions) -> BOOLEAN] :
        \A k \in 1..Len(t.conditions) :
            g[k] => t.conditions[k].second_cond # <<>> }

RECURSIVE cyberiada_test_condition(_, _, _, _, _, _, _, _)
\* returns [found, primary_index]: the int result and the value left in
\* *primary_index, which every scanning loop overwrites with its loop index.
\* A wild cond is memory that is no Condition: where the read does not
\* fault (see WildAndBranch) its type is none of the eight and nothing is
\* found
cyberiada_test_condition(cond, objects, objects_count, primary, primary_index, secondary, argument, won) ==
    IF cond.type = "wild" THEN [found |-> FALSE, primary_index |-> primary_index] ELSE
    LET scan  == cond.type \in ScanKinds
        hits  == IF scan THEN ScanHits(cond, objects, objects_count) ELSE {}
        found == IF scan THEN hits # {}
                 ELSE EventHit(cond, objects, primary, secondary, argument, won)
        pidx  == IF scan /\ objects_count > 0
                 THEN (IF hits # {} THEN SetMin(hits) ELSE objects_count - 1)
                 ELSE primary_index
    IN  IF found /\ cond.second_cond # <<>>
        THEN cyberiada_test_condition(cond.second_cond[1], objects,
                                      objects_count, <<>>, pidx, <<>>, 0, FALSE)
        ELSE [found |-> found, primary_index |-> pidx]

(***************************************************************************)
(* The satisfaction matrix: cyberiada_test_all_conditions                  *)
(* cond_matrix[i][k], i in 0..MAX_CONDITIONS-1, k in 0..objects_count-1.   *)
(* task.conditions is a sequence: the source's conditions[i] is            *)
(* task.conditions[i + 1].                                                 *)
(***************************************************************************)
\* a variant whose inner loop starts at j = i + 2
NoLaterConditionFromNext(cond_matrix, conditions_count, i, k) ==
    \A j \in (i + 2)..(conditions_count - 1) : cond_matrix[j][k] = 0

\* the inner loop over j = i + 1 .. conditions_count - 1 leaves found == 0
NoLaterCondition(cond_matrix, conditions_count, i, k) ==
    \A j \in (i + 1)..(conditions_count - 1) : cond_matrix[j][k] = 0

\* a variant that writes cond_matrix[i][k] ^= 1
SetCellToggle(cond_matrix, i, k) ==
    [cond_matrix EXCEPT ![i][k] = 1 - cond_matrix[i][k]]

\* the write cond_matrix[i][k] = 1
SetCell(cond_matrix, i, k) == [cond_matrix EXCEPT ![i][k] = 1]

\* a variant that credits a GameWon row like any other: one column
CreditPrimaryOnly(cond, cond_matrix, conditions_count, objects_count, i, k) ==
    IF NoLaterCondition(cond_matrix, conditions_count, i, k)
    THEN SetCell(cond_matrix, i, k)
    ELSE cond_matrix

\* the matrix after condition i matched with *primary_index == k
Credit(cond, cond_matrix, conditions_count, objects_count, i, k) ==
    IF cond.type = "win"
    THEN [cond_matrix EXCEPT ![i] =
            [o \in 0..(objects_count - 1) |->
                IF NoLaterCondition(cond_matrix, conditions_count, i, o)
                THEN SetCell(cond_matrix, i, o)[i][o]
                ELSE cond_matrix[i][o]]]
    ELSE IF NoLaterCondition(cond_matrix, conditions_count, i, k)
         THEN SetCell(cond_matrix, i, k)
         ELSE cond_matrix

RECURSIVE TestConditionsFrom(_, _, _, _, _, _, _, _, _, _)
TestConditionsFrom(i, task, objects, objects_count, cond_matrix, primary, primary_index, secondary, argument, won) ==
    IF i >= Len(task.conditions) THEN cond_matrix
    ELSE LET cond == task.conditions[i + 1]
             t == cyberiada_test_condition(cond, objects, objects_count,
                     primary, primary_index, secondary, argument, won)
         IN  TestConditionsFrom(i + 1, task, objects, objects_count,
                IF t.found
                THEN Credit(cond, cond_matrix, Len(task.conditions),
                            objects_count, i, t.primary_index)
                ELSE cond_matrix,
                primary, t.primary_index, secondary, argument, won)

\* a variant whose loop runs from the last condition down to the first
cyberiada_test_all_conditions_descending(task, objects, objects_count, cond_matrix, primary, primary_index, secondary, argument, won) ==
    LET n == Len(task.conditions)
        st[r \in 0..n] ==
            IF r = 0 THEN [m |-> cond_matrix, p |-> primary_index]
            ELSE LET cond == task.conditions[n - r + 1]
                     t == cyberiada_test_condition(cond, objects,
                            objects_count, primary, st[r - 1].p, secondary,
                            argument, won)
                 IN  [m |-> IF t.found
                            THEN Credit(cond, st[r - 1].m, n, objects_count,
                                        n - r, t.primary_index)
                            ELSE st[r - 1].m,
                      p |-> t.primary_index]
    IN  st[n].m

cyberiada_test_all_conditions(task, objects, objects_count, cond_matrix, primary, primary_index, secondary, argument, won) ==
    TestConditionsFrom(0, task, objects, objects_count, cond_matrix, primary,
                       primary_index, secondary, argument, won)

(***************************************************************************)
(* The result byte and the signature                                       *)
(***************************************************************************)
\* the value of a char holding v
ToChar(v) == IF v % 256 >= 128 THEN (v % 256) - 256 ELSE v % 256

\* bit i of the byte b
Bit(b, i) == ((b % 256) \div (2 ^ i)) % 2

\* a variant whose cond_bit needs every object of row i
CondBitAll(cond_matrix, objects_count, i) ==
    IF \A j \in 0..(objects_count - 1) : cond_matrix[i][j] # 0 THEN 1 ELSE 0

\* cond_bit after the loop over the objects of row i
CondBit(cond_matrix, objects_count, i) ==
    IF \E j \in 0..(objects_count - 1) : cond_matrix[i][j] # 0 THEN 1 ELSE 0

\* a variant that shifts by the 1-based condition number
ShiftBitOffByOne(cond_bit, i) == cond_bit * (2 ^ (i + 1))

\* cond_bit << i
ShiftBit(cond_bit, i) == cond_bit * (2 ^ i)

\* res |= v, for v a single bit or 0
OrBit(res, v) == IF v # 0 /\ (res \div v) % 2 = 1 THEN res ELSE res + v

RECURSIVE ReduceFrom(_, _, _, _, _)
ReduceFrom(i, conditions_count, cond_matrix, objects_count, res) ==
    IF i >= conditions_count THEN res
    ELSE ReduceFrom(i + 1, conditions_count, cond_matrix, objects_count,
            ToChar(OrBit(res, ShiftBit(CondBit(cond_matrix, objects_count, i), i))))

\* the loop that folds the matrix into res
ReduceMatrix(cond_matrix, conditions_count, objects_count) ==
    ReduceFrom(0, conditions_count, cond_matrix, objects_count, 0)

\* a digest of "secret:task:result" that leaves the salt out
generate_code_nosalt(secret, task_name, salt, result) ==
    <<"sha256", secret, task_name, 0, result>>

\* hex(sha256("secret:task:salt:result")), the digest left uninterpreted
generate_code(secret, task_name, salt, result) ==
    <<"sha256", secret, task_name, salt, result>>

(***************************************************************************)
(* Scene validation (check objects)                                        *)
(***************************************************************************)
\* types && classes && positions && hps && damages
BaseMatches(b, o) ==
    /\ b.type = o.type
    /\ \/ /\ o.class # NULL /\ o.class # ""
          /\ b.class # NULL /\ b.class # ""
          /\ b.class = o.class
       \/ b.class = NULL \/ b.class = ""
    /\ \/ b.pos_predefined /\ Dist2(o.pos, b.pos) = 0
       \/ ~b.pos_predefined
    /\ \/ b.hp > 0 /\ b.hp = o.hp
       \/ b.hp = 0
    /\ \/ b.damage > 0 /\ b.damage = o.damage
       \/ b.damage = 0

\* the valid flags after the loops over the objects and the base objects
MarkValid(task, objects, objects_count, valid) ==
    [j \in 1..Len(task.base_objects) |->
        valid[j] \/ \E i \in 0..(objects_count - 1) :
                        BaseMatches(task.base_objects[j], objects[i])]

\* the found counters after the loops over the objects and the requirements
CountFound(task, objects, objects_count, found) ==
    [j \in 1..Len(task.object_reqs) |->
        Byte(found[j] + Cardinality({i \in 0..(objects_count - 1) :
            /\ task.object_reqs[j].type = objects[i].type
            /\ task.object_reqs[j].class = objects[i].class}))]

\* strcmp(req.class, NULL): a requirement of type player meets the Player
ReqNullClass(task, objects, objects_count) ==
    \E j \in 1..Len(task.object_reqs) : \E i \in 0..(objects_count - 1) :
        /\ task.object_reqs[j].type = objects[i].type
        /\ objects[i].class = NULL

\* some base object is not valid
BaseMissing(task, valid) ==
    \E j \in 1..Len(task.base_objects) : ~valid[j]

\* some requirement has found < minimum or found > limit
ReqViolated(task, found) ==
    \E j \in 1..Len(task.object_reqs) :
        \/ found[j] < task.object_reqs[j].minimum
        \/ found[j] > task.object_reqs[j].limit

(***************************************************************************)
(* Inputs: task CSV files and log files                                    *)
(***************************************************************************)
CondRow(n, type, ptype, pclass, stype, sclass, arg) ==
    [tag |-> "c", n |-> n, type |-> type, ptype |-> ptype, pclass |-> pclass,
     stype |-> stype, sclass |-> sclass, arg |-> arg]

BaseRow(type, class, predef, pos, hp, damage) ==
    [tag |-> "b", type |-> type, class |-> class, predef |-> predef,
     pos |-> pos, hp |-> hp, damage |-> damage]

ReqRow(type, class, minimum, limit) ==
    [tag |-> "r", type |-> type, class |-> class, minimum |-> minimum,
     limit |-> limit, extra |-> ""]

WinRow(n) == CondRow(n, "win", "", "", "", "", 0)

\* the task CSV files the checker is initialised from
Csvs == {
    \* 1:proxy:player::mob:z:1 / 2:destroy:mob:z:::: with a base and a req
    << CondRow(1, "proxy", "player", "", "mob", "z", 1),
       CondRow(2, "destroy", "mob", "z", "", "", 0),
       BaseRow("mob", "z", TRUE, <<1, 0>>, 0, 0),
       ReqRow("mob", "z", 1, 3) >>,
    \* the same conditions, destroy naming another class
    << CondRow(1, "proxy", "player", "", "mob", "z", 1),
       CondRow(2, "destroy", "mob", "w", "", "", 0) >>,
    \* a single condition numbered 2
    << WinRow(2) >>,
    \* win followed by damage
    << WinRow(1),
       CondRow(2, "damage", "mob", "w", "", "", 1) >>,
    \* approach AND proxy
    << CondRow(1, "approach", "player", "", "mob", "z", 0),
       CondRow(1, "proxy", "player", "", "mob", "z", 1) >>,
    \* destroy AND proxy, proxy AND win, proxy AND destroy
    << CondRow(1, "destroy", "mob", "w", "", "", 0),
       CondRow(1, "proxy", "player", "", "mob", "z", 1),
       CondRow(2, "proxy", "player", "", "mob", "z", 1),
       WinRow(2),
       CondRow(3, "proxy", "player", "", "mob", "z", 1),
       CondRow(3, "destroy", "mob", "w", "", "", 0) >>,
    \* a mob near the player
    << CondRow(1, "proxy", "mob", "z", "player", "", 1) >>,
    \* two identical base objects and a requirement of exactly one
    << CondRow(1, "move", "player", "", "", "", 0),
       CondRow(3, "attack", "player", "", "mob", "z", 1),
       BaseRow("mob", "z", FALSE, <<>>, 0, 0),
       BaseRow("mob", "z", FALSE, <<>>, 0, 0),
       ReqRow("mob", "z", 1, 1) >>,
    \* a requirement on the player
    << WinRow(1),
       ReqRow("player", "", 1, 1) >>,
    \* seven conditions
    << WinRow(1), WinRow(2), WinRow(3), WinRow(4), WinRow(5), WinRow(6),
       WinRow(7) >> }

TaskName == "T"
Secret == "s"
Salts == {7, 42}

\* log lines, split into fields
StartLine(p) == [k |-> "start", pos |-> p, ok |-> TRUE]
BadStartLine == [k |-> "start", pos |-> <<0, 0>>, ok |-> FALSE]
HeaderLine == [k |-> "header"]
HLine == [k |-> "hline"]
PlainLine == [k |-> "plain"]
SceneRow(id, class, ltype, p, hp, damage) ==
    [k |-> "row", id |-> id, class |-> class, ltype |-> ltype, pos |-> p,
     ok |-> TRUE, hp |-> hp, damage |-> damage]

RowA == SceneRow("a", "z", "mob", <<1, 0>>, 1, 0)
RowB == SceneRow("b", "w", "mob", <<3, 0>>, 1, 0)
RowA2 == SceneRow("b", "z", "mob", <<0, 0>>, 1, 0)

\* an entry of a position line: "who position: (x,y)" (kw) or "who (x,y)"
PosEntry(who, kw, p) == [who |-> who, kw |-> kw, pos |-> p, ok |-> TRUE]
BadCoordsEntry(who, kw) == [who |-> who, kw |-> kw, pos |-> <<0, 0>>, ok |-> FALSE]
PosLine(ents) == [k |-> "pos", ents |-> ents]
AttackLine(a, t, dmg) == [k |-> "attack", a |-> a, t |-> t, dmg |-> dmg, ok |-> TRUE]
AttackedLine(t, dmg) == [k |-> "attacked", t |-> t, dmg |-> dmg, ok |-> TRUE]
DiedLine(v) == [k |-> "died", v |-> v, ok |-> TRUE]
GameOverLine(value) == [k |-> "over", value |-> value]
SessionEndedLine == [k |-> "end"]
\* "[t] ..." with no known token, and "[t ..." with no closing bracket
UnknownEventLine == [k |-> "junk"]
NoTimeLine == [k |-> "notime"]

\* what the log holds before its tail
Preambles ==
    { << StartLine(p), HeaderLine, RowA, HLine >> :
         p \in {<<0, 0>>, <<3, 0>>, <<0, 1>>} }
    \cup
    { << StartLine(<<0, 0>>), HeaderLine, RowA, RowB, HLine >>,
      << StartLine(<<0, 0>>), HeaderLine, RowA, RowA2, HLine >>,
      << StartLine(<<0, 0>>), HeaderLine, HLine >>,
      << StartLine(<<0, 0>>), HeaderLine, HLine, RowA, HLine >>,
      << HeaderLine, RowA, RowB, HLine, StartLine(<<0, 0>>), HeaderLine, HLine >>,
      << HeaderLine, RowA, HLine, StartLine(<<0, 0>>), HeaderLine, RowB, HLine >>,
      << HeaderLine, HLine, StartLine(<<0, 0>>), HeaderLine, RowA, HLine >>,
      << StartLine(<<0, 0>>), HeaderLine, RowA >>,
      << StartLine(<<0, 0>>), HeaderLine, PlainLine, HLine >>,
      << StartLine(<<0, 0>>), HeaderLine, RowA, HLine, GameOverLine("Win"),
         SessionEndedLine, UnknownEventLine >>,
      << BadStartLine >>,
      << >> }

MovePoints == {<<0, 0>>, <<3, 0>>}

\* the lines the log may hold after its preamble
TailLines ==
    { PosLine(<< PosEntry("a", TRUE, p) >>) : p \in MovePoints }
    \cup { PosLine(<< PosEntry("Player", FALSE, p), PosEntry("a", TRUE, q) >>) :
             p \in MovePoints, q \in MovePoints }
    \cup { PosLine(<< PosEntry("Player", TRUE, <<3, 0>>) >>),
           PosLine(<< PosEntry("Player", FALSE, <<3, 0>>) >>),
           PosLine(<< PosEntry("x", TRUE, <<0, 0>>) >>),
           PosLine(<< BadCoordsEntry("a", TRUE) >>),
           AttackLine("Player", "a", 1), AttackLine("a", "Player", 2),
           AttackLine("Player", "x", 1), AttackLine("x", "a", 1),
           [k |-> "attack", a |-> "Player", t |-> "a", dmg |-> 1, ok |-> FALSE],
           AttackedLine("a", 1), AttackedLine("x", 1),
           DiedLine("a"), DiedLine("b"), DiedLine("x"),
           GameOverLine("Win"), GameOverLine("Lose"),
           SessionEndedLine, UnknownEventLine, NoTimeLine, PlainLine }

(***************************************************************************)
(* cyberiada_ursula_log_checker_init: the config file is a sequence of     *)
(* lines "secret:<value>", "<task name>:<csv file>" and lines without a    *)
(* ':' or with nothing after it, which are skipped.                        *)
(***************************************************************************)
SecretLine(v) == [k |-> "secret", v |-> v]
TaskLine(name, csv) == [k |-> "task", name |-> name, csv |-> csv]
SkippedLine == [k |-> "skip"]

RECURSIVE InitFrom(_, _, _)
\* the loop over the lines: st = [res, secret, tasks, overflow, garbage]
InitFrom(cfg, k, st) ==
    IF k > Len(cfg) THEN st
    ELSE LET line == cfg[k] IN
        IF line.k = "skip" THEN InitFrom(cfg, k + 1, st)
        ELSE IF line.k = "secret" THEN
            IF st.secret # NULL
            THEN [st EXCEPT !.res = URSULA_CHECK_BAD_PARAMETERS]
            ELSE InitFrom(cfg, k + 1, [st EXCEPT !.secret = line.v])
        ELSE LET ld == cyberiada_ursula_log_task_config(line.csv, line.name)
             IN  IF ld.res # URSULA_CHECK_NO_ERROR
                 THEN [st EXCEPT !.res = URSULA_CHECK_BAD_PARAMETERS,
                                 !.overflow = ld.overflow,
                                 !.garbage = ld.garbage]
                 ELSE InitFrom(cfg, k + 1,
                        [st EXCEPT !.tasks = Append(@, ld.task)])

\* [res, secret, tasks, overflow, garbage]; memset leaves secret NULL and
\* tasks empty
cyberiada_ursula_log_checker_init(cfg) ==
    InitFrom(cfg, 1, [res |-> URSULA_CHECK_NO_ERROR, secret |-> NULL,
                      tasks |-> <<>>, overflow |-> FALSE, garbage |-> FALSE])

(***************************************************************************)
(* State                                                                   *)
(***************************************************************************)
VARIABLES
    task,           \* the task the checker holds (read-only after init)
    secret,         \* checker->secret
    config,         \* the config file the checker is initialised from
    valid,          \* task->base_objects[j].valid, j in 1..base_objects_count
    found,          \* task->object_reqs[j].found, j in 1..object_reqs_count
    log,            \* the lines of the log file known so far
    ntail,          \* how many of them follow the preamble
    closed,         \* the end of the file has been seen: log is the whole file
    pc,             \* "idle", "run" (inside check_log), "done", "crash"
    calls,          \* check_log calls started
    args,           \* the arguments of the call: "ok", "null", "notask", "nolog"
    salt,
    exit,           \* the return statement (or ERROR site) the call left through
    last,           \* <<>> or <<the arguments and outputs of the previous call>>
    state,          \* 'p', 's', 'o', 'l'
    pos,            \* lines read since the file was opened or rewound
    player_pos,
    objects,        \* <<>> (NULL) or the array over 0..objects_count-1
    objects_count,
    i,
    cond_matrix,    \* <<>> (NULL) or the matrix
    result,         \* the caller's *result
    result_code,    \* the caller's *result_code: <<>> (NULL) or the code
    ret             \* the value returned

checker == <<task, secret, config>>
scratch == <<valid, found>>
file == <<log, ntail, closed>>
call == <<calls, args, salt, last>>
locals == <<state, pos, player_pos, objects, objects_count, i, cond_matrix>>
outs == <<result, result_code, ret, exit>>
vars == <<checker, scratch, file, pc, call, locals, outs>>

IsNull(a) == DOMAIN a = {}

\* memset(objects, 0, ...): otPlayer is 0
ZeroObject ==
    [type |-> "player", class |-> NULL, id |-> NULL, pos |-> <<0, 0>>,
     prev_pos |-> <<0, 0>>, hp |-> 0, damage |-> 0]

ZeroMatrix(n) ==
    [r \in 0..(MAX_CONDITIONS - 1) |-> [o \in 0..(n - 1) |-> 0]]

Init ==
    /\ \E csv \in Csvs :
          config = << SecretLine(Secret), TaskLine(TaskName, csv) >>
    /\ LET ci == cyberiada_ursula_log_checker_init(config)
       IN  /\ ci.res = URSULA_CHECK_NO_ERROR
           /\ \E g \in Leftovers(ci.tasks[1]) :
                 task = Allocated(ci.tasks[1], g)
           /\ secret = ci.secret
    /\ valid = [j \in 1..Len(task.base_objects) |-> FALSE]
    /\ found \in [1..Len(task.object_reqs) -> 0..MaxGarbage]
    /\ log \in Preambles
    /\ ntail = 0
    /\ closed = FALSE
    /\ pc = "idle"
    /\ calls = 0
    /\ args = ""
    /\ salt = 0
    /\ exit = ""
    /\ last = <<>>
    /\ state = "p"
    /\ pos = 0
    /\ player_pos = <<0, 0>>
    /\ objects = <<>>
    /\ objects_count = 0
    /\ i = 0
    /\ cond_matrix = <<>>
    /\ result = 0
    /\ result_code = <<>>
    /\ ret = 0

(***************************************************************************)
(* check_log: entry and the ways out                                       *)
(***************************************************************************)
\* the locals of a call, as declared; they are gone once it returns
FreshLocals ==
    /\ state' = "p"
    /\ pos' = 0
    /\ player_pos' = <<0, 0>>
    /\ objects' = <<>>
    /\ objects_count' = 0
    /\ i' = 0
    /\ cond_matrix' = <<>>

\* a variant that leaves *result as the caller passed it
ErrorResultKept(old) == old

\* *result = URSULA_CHECK_RESULT_ERROR on a failing return
ErrorResult(old) == URSULA_CHECK_RESULT_ERROR

Leave(r, res, code, why) ==
    /\ pc' = "done"
    /\ ret' = r
    /\ result' = res
    /\ result_code' = code
    /\ exit' = why
    /\ FreshLocals

\* the caller passes its result variable as it stands and a NULL result_code
Call(a, s) ==
    /\ pc \in {"idle", "done"}
    /\ calls < MaxCalls
    /\ calls' = calls + 1
    /\ args' = a
    /\ salt' = s
    /\ last' = IF pc = "done"
               THEN << [args |-> args, salt |-> salt, ret |-> ret,
                        result |-> result, result_code |-> result_code] >>
               ELSE <<>>

\* The three early returns come before salt is read: the model leaves the
\* salt variable as it is on them.
\* !checker || !task_name || !log_file
BadArguments ==
    /\ Call("null", salt)
    /\ Leave(URSULA_CHECK_BAD_PARAMETERS, ErrorResult(result), <<>>, "args")
    /\ UNCHANGED <<checker, scratch, file>>

\* no task of that name
UnknownTask ==
    /\ Call("notask", salt)
    /\ Leave(URSULA_CHECK_BAD_PARAMETERS, ErrorResult(result), <<>>, "task")
    /\ UNCHANGED <<checker, scratch, file>>

\* fopen fails
CannotOpenLog ==
    /\ Call("nolog", salt)
    /\ Leave(URSULA_CHECK_BAD_PARAMETERS, ErrorResult(result), <<>>, "open")
    /\ UNCHANGED <<checker, scratch, file>>

\* the log is open, the loop starts in state 'p'
EnterLoop ==
    \E s \in Salts :
        /\ Call("ok", s)
        /\ pc' = "run"
        /\ FreshLocals
        /\ result_code' = <<>>
        /\ exit' = ""
        /\ UNCHANGED <<checker, scratch, file, result, ret>>

\* goto error_log
error_log(why) ==
    /\ Leave(URSULA_CHECK_BAD_PARAMETERS, ErrorResult(result), result_code, why)
    /\ UNCHANGED <<checker, call>>

\* lines 1605-1658: fold the matrix, free, sign
Finish ==
    LET res == IF IsNull(cond_matrix) THEN 0
               ELSE ReduceMatrix(cond_matrix, Len(task.conditions), objects_count)
    IN  /\ Leave(URSULA_CHECK_NO_ERROR, res,
                 generate_code(secret, task.name, salt, res), "ok")
        /\ UNCHANGED <<checker, scratch, call>>

\* a write past the end of a heap array, or strcmp with NULL: no return
Crash(why) ==
    /\ pc' = "crash"
    /\ exit' = why
    /\ UNCHANGED <<checker, scratch, call, locals, result, result_code, ret>>

(***************************************************************************)
(* Reading the log                                                         *)
(***************************************************************************)
\* what getline may deliver next
NextLines ==
    IF pos < Len(log) THEN {log[pos + 1]}
    ELSE IF ~closed /\ ntail < MaxTail THEN TailLines
    ELSE {}

Take(l) ==
    /\ IF pos < Len(log) THEN UNCHANGED <<log, ntail>>
       ELSE log' = Append(log, l) /\ ntail' = ntail + 1
    /\ UNCHANGED closed

\* a variant in which the line is read again on the next turn
ContinueSameLine ==
    /\ pos' = pos
    /\ UNCHANGED <<checker, scratch, pc, call, outs, state, player_pos,
                   objects, objects_count, i, cond_matrix>>

\* the loop goes round with nothing but the line consumed
Continue ==
    /\ pos' = pos + 1
    /\ UNCHANGED <<checker, scratch, pc, call, outs, state, player_pos,
                   objects, objects_count, i, cond_matrix>>

\* a variant in which the end of the file is an error
EndOfFileError ==
    /\ pc = "run"
    /\ pos = Len(log)
    /\ closed' = TRUE
    /\ UNCHANGED <<log, ntail>>
    /\ error_log("eof")
    /\ UNCHANGED scratch

\* feof: the loop ends
EndOfFile ==
    /\ pc = "run"
    /\ pos = Len(log)
    /\ closed' = TRUE
    /\ UNCHANGED <<log, ntail>>
    /\ Finish

\* state 'p', any line but Player Start Position
AwaitPlayerStart ==
    /\ pc = "run" /\ state = "p"
    /\ \E l \in NextLines : l.k # "start" /\ Take(l)
    /\ Continue

\* state 'p', Player Start Position with coordinates
PlayerStart ==
    /\ pc = "run" /\ state = "p"
    /\ \E l \in NextLines :
        /\ l.k = "start" /\ l.ok /\ Take(l)
        /\ player_pos' = l.pos
    /\ state' = "s"
    /\ pos' = pos + 1
    /\ UNCHANGED <<checker, scratch, pc, call, outs, objects, objects_count,
                   i, cond_matrix>>

\* state 'p', Player Start Position without a comma
PlayerStartBad ==
    /\ pc = "run" /\ state = "p"
    /\ \E l \in NextLines : l.k = "start" /\ ~l.ok /\ Take(l)
    /\ error_log("start_coords")
    /\ UNCHANGED scratch

\* state 's', any line but the scene header
AwaitSceneHeader ==
    /\ pc = "run" /\ state = "s"
    /\ \E l \in NextLines : l.k # "header" /\ Take(l)
    /\ Continue

\* state 's', the scene header
SceneHeader ==
    /\ pc = "run" /\ state = "s"
    /\ \E l \in NextLines : l.k = "header" /\ Take(l)
    /\ state' = "o"
    /\ pos' = pos + 1
    /\ UNCHANGED <<checker, scratch, pc, call, outs, player_pos, objects,
                   objects_count, i, cond_matrix>>

\* state 'o', counting pass: a line that is not ---
CountLine ==
    /\ pc = "run" /\ state = "o" /\ IsNull(objects)
    /\ \E l \in NextLines : l.k # "hline" /\ Take(l)
    /\ objects_count' = objects_count + 1
    /\ pos' = pos + 1
    /\ UNCHANGED <<checker, scratch, pc, call, outs, state, player_pos,
                   objects, i, cond_matrix>>

\* a variant that rewinds without allocating the objects
CountEndNoAlloc ==
    /\ pc = "run" /\ state = "o" /\ IsNull(objects)
    /\ \E l \in NextLines : l.k = "hline" /\ Take(l)
    /\ state' = "s"
    /\ pos' = 0
    /\ UNCHANGED <<checker, scratch, pc, call, outs, player_pos, objects,
                   objects_count, i, cond_matrix>>

\* state 'o', counting pass: ---, allocate and rewind
CountEnd ==
    /\ pc = "run" /\ state = "o" /\ IsNull(objects)
    /\ \E l \in NextLines : l.k = "hline" /\ Take(l)
    /\ objects_count' = objects_count + 1
    /\ state' = "s"
    /\ objects' = [o \in 0..objects_count |-> ZeroObject]
    /\ i' = 0
    /\ pos' = 0
    /\ UNCHANGED <<checker, scratch, pc, call, outs, player_pos, cond_matrix>>

(***************************************************************************)
(* State 'o', second pass: the scene rows and the closing ---              *)
(***************************************************************************)
\* lines in which strchr finds the '|' field separator
HasBars(l) == l.k \in {"row", "header"}

\* the type column of a scene row
LogObjectType(ltype) ==
    IF ltype = "mob" THEN "mob"
    ELSE IF ltype = "interactive_object" THEN "intobj"
    ELSE "static"

\* a variant that stores every row as a static object
RowObjectStatic(l) ==
    [type |-> "static", class |-> l.class, id |-> l.id,
     pos |-> l.pos, prev_pos |-> l.pos, hp |-> l.hp, damage |-> l.damage]

\* objects[i] after a row has been parsed into it
RowObject(l) ==
    [type |-> LogObjectType(l.ltype), class |-> l.class, id |-> l.id,
     pos |-> l.pos, prev_pos |-> l.pos, hp |-> l.hp, damage |-> l.damage]

\* a row whose seven fields all parse
GoodRow(l) == l.k = "row" /\ l.id # "" /\ l.class # "" /\ l.ok

\* a scene row stored at objects[i]
ReadRow ==
    /\ pc = "run" /\ state = "o" /\ ~IsNull(objects)
    /\ \E l \in NextLines :
        /\ GoodRow(l) /\ i < objects_count /\ Take(l)
        /\ objects' = [objects EXCEPT ![i] = RowObject(l)]
    /\ i' = i + 1
    /\ pos' = pos + 1
    /\ UNCHANGED <<checker, scratch, pc, call, outs, state, player_pos,
                   objects_count, cond_matrix>>

\* a line that is no row: no separator, or a field that does not parse
ReadRowBad ==
    /\ pc = "run" /\ state = "o" /\ ~IsNull(objects)
    /\ \E l \in NextLines :
        /\ l.k # "hline" /\ ~GoodRow(l) /\ Take(l)
        /\ ~HasBars(l) \/ i < objects_count
    /\ error_log("row_format")
    /\ UNCHANGED scratch

\* the first field of a row is stored at objects[i] with i >= objects_count
ReadRowOverflow ==
    /\ pc = "run" /\ state = "o" /\ ~IsNull(objects)
    /\ \E l \in NextLines : HasBars(l) /\ i >= objects_count /\ Take(l)
    /\ Crash("heap_overflow")

\* the objects array once the Player has been added at index i
WithPlayer(objs, k, p) ==
    [objs EXCEPT ![k] = [type |-> "player", class |-> NULL, id |-> NULL,
                         pos |-> <<p[1], p[2]>>,
                         prev_pos |-> <<p[2], objs[k].prev_pos[2]>>,
                         hp |-> 0, damage |-> 0]]

\* --- with i != objects_count - 1
SceneWrongCount ==
    /\ pc = "run" /\ state = "o" /\ ~IsNull(objects)
    /\ \E l \in NextLines : l.k = "hline" /\ Take(l)
    /\ i # objects_count - 1
    /\ error_log("wrong_count")
    /\ UNCHANGED scratch

\* --- closes the scene: a requirement of type player is compared with the
\* Player's NULL class
SceneNullClass ==
    /\ pc = "run" /\ state = "o" /\ ~IsNull(objects)
    /\ \E l \in NextLines : l.k = "hline" /\ Take(l)
    /\ i = objects_count - 1
    /\ ReqNullClass(task, WithPlayer(objects, i, player_pos), objects_count)
    /\ Crash("strcmp_null")

\* the guard shared by the three outcomes of scene validation
SceneCheck(l) ==
    /\ pc = "run" /\ state = "o" /\ ~IsNull(objects)
    /\ l.k = "hline" /\ Take(l)
    /\ i = objects_count - 1
    /\ ~ReqNullClass(task, WithPlayer(objects, i, player_pos), objects_count)
    /\ valid' = MarkValid(task, WithPlayer(objects, i, player_pos),
                          objects_count, valid)
    /\ found' = CountFound(task, WithPlayer(objects, i, player_pos),
                           objects_count, found)

\* a base object stays not valid
SceneBaseMissing ==
    /\ \E l \in NextLines : SceneCheck(l)
    /\ BaseMissing(task, valid')
    /\ error_log("base")

\* a requirement is out of its range
SceneReqViolated ==
    /\ \E l \in NextLines : SceneCheck(l)
    /\ ~BaseMissing(task, valid')
    /\ ReqViolated(task, found')
    /\ error_log("req")

\* validation passes: the matrix is created, state 'l'
SceneValidated ==
    /\ \E l \in NextLines : SceneCheck(l)
    /\ ~BaseMissing(task, valid')
    /\ ~ReqViolated(task, found')
    /\ objects' = WithPlayer(objects, i, player_pos)
    /\ cond_matrix' = ZeroMatrix(objects_count)
    /\ state' = "l"
    /\ pos' = pos + 1
    /\ UNCHANGED <<checker, pc, call, outs, player_pos, objects_count, i>>

(***************************************************************************)
(* State 'l': the events                                                   *)
(***************************************************************************)
\* lines that do not start with '['
NoBracket(l) == l.k \in {"start", "header", "hline", "row", "plain"}

\* the object a position entry names: the first match
PositionObject(objs, n, who) ==
    LET S == IF who = "Player"
             THEN {o \in 0..(n - 1) : objs[o].type = "player"}
             ELSE {o \in 0..(n - 1) : objs[o].type # "player" /\ objs[o].id = who}
    IN  IF S = {} THEN <<>> ELSE <<SetMin(S)>>

\* the object an attack, attacked or died line names: the last match
EventObject(objs, n, who) ==
    LET S == {o \in 0..(n - 1) :
                \/ objs[o].type = "player" /\ who = "Player"
                \/ objs[o].type # "player" /\ objs[o].id = who}
    IN  IF S = {} THEN <<>> ELSE <<CHOOSE o \in S : \A q \in S : q <= o>>

\* the coordinates parse_coordinates reads from an entry: after "Player" the
\* rest of the entry is parsed, so a "position:" keyword there is read as x
EntryCoords(e) ==
    IF e.who = "Player" /\ e.kw THEN <<0, e.pos[2]>> ELSE e.pos

RECURSIVE ApplyEntries(_, _, _, _)
\* the loop over the entries of a position line: [err, objects]
ApplyEntries(ents, k, objs, n) ==
    IF k > Len(ents) THEN [err |-> "", objects |-> objs]
    ELSE LET e == ents[k]
             o == PositionObject(objs, n, e.who)
         IN  IF o = <<>> THEN [err |-> "pos_unknown", objects |-> objs]
             ELSE IF e.who # "Player" /\ ~e.kw
                  THEN [err |-> "pos_format", objects |-> objs]
             ELSE IF ~e.ok THEN [err |-> "pos_coords", objects |-> objs]
             ELSE ApplyEntries(ents, k + 1,
                    [objs EXCEPT ![o[1]].prev_pos = objs[o[1]].pos,
                                 ![o[1]].pos = EntryCoords(e)], n)

\* strstr(s, "position:") != NULL
IsPositionLine(l) ==
    l.k = "pos" /\ \E k \in 1..Len(l.ents) : l.ents[k].kw

\* the shape shared by the events that test the conditions
Tested(objs, primary, primary_index, secondary, argument, won) ==
    /\ objects' = objs
    /\ cond_matrix' = cyberiada_test_all_conditions(task, objs, objects_count,
                          cond_matrix, primary, primary_index, secondary,
                          argument, won)
    /\ pos' = pos + 1
    /\ UNCHANGED <<checker, scratch, pc, call, outs, state, player_pos,
                   objects_count, i>>

\* what an event line hands to cyberiada_test_all_conditions, when its own
\* parsing succeeds
EventPayload(l) ==
    LET none == [ok |-> FALSE, objs |-> objects, primary |-> <<>>,
                 secondary |-> <<>>, argument |-> 0, won |-> FALSE]
    IN  IF IsPositionLine(l)
        THEN LET r == ApplyEntries(l.ents, 1, objects, objects_count)
             IN  [none EXCEPT !.ok = (r.err = ""), !.objs = r.objects]
        ELSE IF l.k = "attack"
        THEN LET attacker == EventObject(objects, objects_count, l.a)
                 target == EventObject(objects, objects_count, l.t)
             IN  [none EXCEPT !.ok = l.ok /\ attacker # <<>> /\ target # <<>>,
                              !.primary = attacker, !.secondary = target,
                              !.argument = l.dmg]
        ELSE IF l.k = "attacked"
        THEN LET target == EventObject(objects, objects_count, l.t)
             IN  [none EXCEPT !.ok = l.ok /\ target # <<>>,
                              !.primary = target, !.argument = l.dmg]
        ELSE IF l.k = "died"
        THEN LET died == EventObject(objects, objects_count, l.v)
             IN  [none EXCEPT !.ok = l.ok /\ died # <<>>, !.primary = died]
        ELSE IF l.k = "over"
        THEN [none EXCEPT !.ok = (l.value = "Win"), !.won = TRUE]
        ELSE none

\* does this test of the conditions reach "if (cond->second_cond)" inside an
\* AND branch whose second_cond is a wild pointer?
DereferencesWild(e) ==
    \E k \in 1..Len(task.conditions) :
        LET cond == task.conditions[k]
            Alone(c) == [c EXCEPT !.second_cond = <<>>]
        IN  /\ cond.second_cond # <<>>
            /\ cond.second_cond[1].second_cond # <<>>
            /\ cyberiada_test_condition(Alone(cond), e.objs, objects_count,
                    e.primary, 0, e.secondary, e.argument, e.won).found
            /\ cyberiada_test_condition(Alone(cond.second_cond[1]), e.objs,
                    objects_count, <<>>, 0, <<>>, 0, FALSE).found

\* the recursion into the wild pointer reads memory that is no Condition:
\* the process may die there
WildAndBranch ==
    /\ pc = "run" /\ state = "l"
    /\ \E l \in NextLines :
        /\ EventPayload(l).ok /\ DereferencesWild(EventPayload(l))
        /\ Take(l)
    /\ Crash("wild_second_cond")

\* a line without '[' is passed over
SkipNoBracket ==
    /\ pc = "run" /\ state = "l"
    /\ \E l \in NextLines : NoBracket(l) /\ Take(l)
    /\ Continue

\* '[' without ']'
NoTimeSection ==
    /\ pc = "run" /\ state = "l"
    /\ \E l \in NextLines : l.k = "notime" /\ Take(l)
    /\ error_log("no_time")
    /\ UNCHANGED scratch

\* a variant that tests the conditions before the entries are applied
PositionEventTestFirst ==
    /\ pc = "run" /\ state = "l"
    /\ \E l \in NextLines :
        LET r == ApplyEntries(l.ents, 1, objects, objects_count)
        IN  /\ IsPositionLine(l) /\ r.err = "" /\ Take(l)
            /\ objects' = r.objects
            /\ cond_matrix' = cyberiada_test_all_conditions(task, objects,
                                  objects_count, cond_matrix, <<>>, 0, <<>>,
                                  0, FALSE)
    /\ pos' = pos + 1
    /\ UNCHANGED <<checker, scratch, pc, call, outs, state, player_pos,
                   objects_count, i>>

PositionEvent ==
    /\ pc = "run" /\ state = "l"
    /\ \E l \in NextLines :
        LET r == ApplyEntries(l.ents, 1, objects, objects_count)
        IN  /\ IsPositionLine(l) /\ r.err = "" /\ Take(l)
            /\ Tested(r.objects, <<>>, 0, <<>>, 0, FALSE)

PositionEventBad ==
    /\ pc = "run" /\ state = "l"
    /\ \E l \in NextLines :
        LET r == ApplyEntries(l.ents, 1, objects, objects_count)
        IN  /\ IsPositionLine(l) /\ r.err # "" /\ Take(l)
            /\ error_log(r.err)
    /\ UNCHANGED scratch

AttackEvent ==
    /\ pc = "run" /\ state = "l"
    /\ \E l \in NextLines :
        LET attacker == EventObject(objects, objects_count, l.a)
            target == EventObject(objects, objects_count, l.t)
        IN  /\ l.k = "attack" /\ l.ok /\ attacker # <<>> /\ target # <<>>
            /\ Take(l)
            /\ Tested(objects, attacker, attacker[1], target, l.dmg, FALSE)

AttackEventBad ==
    /\ pc = "run" /\ state = "l"
    /\ \E l \in NextLines :
        /\ l.k = "attack" /\ Take(l)
        /\ error_log(IF ~l.ok THEN "attack_format"
                     ELSE IF EventObject(objects, objects_count, l.a) = <<>>
                     THEN "attacker" ELSE "target")
        /\ \/ ~l.ok
           \/ EventObject(objects, objects_count, l.a) = <<>>
           \/ EventObject(objects, objects_count, l.t) = <<>>
    /\ UNCHANGED scratch

AttackedEvent ==
    /\ pc = "run" /\ state = "l"
    /\ \E l \in NextLines :
        LET target == EventObject(objects, objects_count, l.t)
        IN  /\ l.k = "attacked" /\ l.ok /\ target # <<>> /\ Take(l)
            /\ Tested(objects, target, target[1], <<>>, l.dmg, FALSE)

AttackedEventBad ==
    /\ pc = "run" /\ state = "l"
    /\ \E l \in NextLines :
        /\ l.k = "attacked" /\ Take(l)
        /\ ~l.ok \/ EventObject(objects, objects_count, l.t) = <<>>
        /\ error_log(IF ~l.ok THEN "attacked_format" ELSE "attacked_target")
    /\ UNCHANGED scratch

DiedEvent ==
    /\ pc = "run" /\ state = "l"
    /\ \E l \in NextLines :
        LET died == EventObject(objects, objects_count, l.v)
        IN  /\ l.k = "died" /\ l.ok /\ died # <<>> /\ Take(l)
            /\ Tested(objects, died, died[1], <<>>, 0, FALSE)

DiedEventBad ==
    /\ pc = "run" /\ state = "l"
    /\ \E l \in NextLines :
        /\ l.k = "died" /\ Take(l)
        /\ ~l.ok \/ EventObject(objects, objects_count, l.v) = <<>>
        /\ error_log(IF ~l.ok THEN "died_format" ELSE "died_id")
    /\ UNCHANGED scratch

\* Game Over: Win
GameWon ==
    /\ pc = "run" /\ state = "l"
    /\ \E l \in NextLines : l.k = "over" /\ l.value = "Win" /\ Take(l)
    /\ Tested(objects, <<>>, 0, <<>>, 0, TRUE)

\* Game Over: anything else
GameOverOther ==
    /\ pc = "run" /\ state = "l"
    /\ \E l \in NextLines : l.k = "over" /\ l.value # "Win" /\ Take(l)
    /\ Continue

\* a variant in which Session ended is passed over
SessionEndedContinue ==
    /\ pc = "run" /\ state = "l"
    /\ \E l \in NextLines : l.k = "end" /\ Take(l)
    /\ Continue

\* Session ended: break
SessionEnded ==
    /\ pc = "run" /\ state = "l"
    /\ \E l \in NextLines : l.k = "end" /\ Take(l)
    /\ Finish

\* a variant in which such a line is passed over
UnknownEventSkipped ==
    /\ pc = "run" /\ state = "l"
    /\ \E l \in NextLines :
        /\ l.k = "junk" \/ (l.k = "pos" /\ ~IsPositionLine(l))
        /\ Take(l)
    /\ Continue

\* a timestamped line with none of the known tokens
UnknownEvent ==
    /\ pc = "run" /\ state = "l"
    /\ \E l \in NextLines :
        /\ l.k = "junk" \/ (l.k = "pos" /\ ~IsPositionLine(l))
        /\ Take(l)
    /\ error_log("unknown_event")
    /\ UNCHANGED scratch

\* one turn of the while loop of check_log, or its end
LoopStep ==
    \/ EndOfFile
    \/ AwaitPlayerStart \/ PlayerStart \/ PlayerStartBad
    \/ AwaitSceneHeader \/ SceneHeader
    \/ CountLine \/ CountEnd
    \/ ReadRow \/ ReadRowBad \/ ReadRowOverflow
    \/ SceneWrongCount \/ SceneNullClass
    \/ SceneBaseMissing \/ SceneReqViolated \/ SceneValidated
    \/ SkipNoBracket \/ NoTimeSection \/ WildAndBranch
    \/ PositionEvent \/ PositionEventBad
    \/ AttackEvent \/ AttackEventBad
    \/ AttackedEvent \/ AttackedEventBad
    \/ DiedEvent \/ DiedEventBad
    \/ GameWon \/ GameOverOther
    \/ SessionEnded \/ UnknownEvent

Next ==
    \/ BadArguments \/ UnknownTask \/ CannotOpenLog \/ EnterLoop
    \/ LoopStep

Spec == Init /\ [][Next]_vars

\* the calls of the checker, MaxLiveCalls of them
LiveNext ==
    \/ calls < MaxLiveCalls /\ BadArguments
    \/ calls < MaxLiveCalls /\ UnknownTask
    \/ calls < MaxLiveCalls /\ CannotOpenLog
    \/ calls < MaxLiveCalls /\ EnterLoop
    \/ LoopStep

\* check_log is a blocking sequential call: once inside the loop the next
\* step is always taken.  When a call is made is up to the caller.
LiveSpec == Init /\ [][LiveNext]_vars /\ WF_vars(LoopStep)

(***************************************************************************)
(* Initialisation on its own: the config files range over task CSVs of up  *)
(* to MaxRows condition rows with the numbers of LoadNumbers, some longer  *)
(* ones, and 0..MaxSecrets secret lines before the task line.              *)
(***************************************************************************)
\* atoi of the first field: 0 (no number), small numbers, and one above 255
LoadNumbers == {0, 1, 2, 257}

\* enumerated CSVs, eight rows numbered 1..8, 8..1 and
\* 257,1,258,2,259,3,260,4, and CSVs with a req row
LoadCsvs ==
    LET EightAscending == [r \in 1..8 |-> WinRow(r)]
        EightDescending == [r \in 1..8 |-> WinRow(9 - r)]
        EightWrapped ==
            [r \in 1..8 |->
                WinRow(IF r % 2 = 1 THEN 256 + (r + 1) \div 2 ELSE r \div 2)]
        \* one condition and a req row with every pair of amounts, 256 too
        WithReq == { << WinRow(1), ReqRow("mob", "z", minimum, limit) >> :
                        minimum, limit \in LoadNumbers \cup {256} }
    IN  Csvs \cup UNION { [1..m -> {WinRow(n) : n \in LoadNumbers}] :
                            m \in 0..MaxRows }
             \cup {EightAscending, EightDescending, EightWrapped}
             \cup WithReq

\* the lines a config file is put together from: a line without ':' or
\* with nothing after it, the secret, a task whose CSV loads, a task whose
\* CSV has no condition row, and a task whose CSV has a row of unknown type
ManifestLines ==
    { SkippedLine, SecretLine(Secret),
      TaskLine(TaskName, << WinRow(1) >>),
      TaskLine(TaskName, << >>),
      TaskLine(TaskName, << CondRow(1, "bogus", "", "", "", "", 0) >>) }

\* 0..MaxSecrets secret lines before one task line, and every file of up to
\* MaxLines lines
Configs ==
    { [r \in 1..(ns + 1) |->
            IF r <= ns THEN SecretLine(Secret) ELSE TaskLine(TaskName, csv)] :
        ns \in 0..MaxSecrets, csv \in LoadCsvs }
    \cup UNION { [1..m -> ManifestLines] : m \in 0..MaxLines }

\* no task: checker->tasks == NULL
NoTask ==
    [name |-> NULL, base_objects |-> <<>>, object_reqs |-> <<>>,
     conditions |-> <<>>]

InitLoad ==
    /\ config \in Configs
    /\ task = NoTask
    /\ secret = NULL
    /\ valid = <<>>
    /\ found = <<>>
    /\ log = <<>>
    /\ ntail = 0
    /\ closed = FALSE
    /\ pc = "init"
    /\ calls = 0
    /\ args = ""
    /\ salt = 0
    /\ exit = ""
    /\ last = <<>>
    /\ state = "p"
    /\ pos = 0
    /\ player_pos = <<0, 0>>
    /\ objects = <<>>
    /\ objects_count = 0
    /\ i = 0
    /\ cond_matrix = <<>>
    /\ result = 0
    /\ result_code = <<>>
    /\ ret = 0

\* init returns NoError: the checker holds the secret and the task
InitChecker ==
    /\ pc = "init"
    /\ LET ci == cyberiada_ursula_log_checker_init(config)
       IN  /\ ci.res = URSULA_CHECK_NO_ERROR
           /\ IF ci.tasks = <<>> THEN task' = NoTask
              ELSE \E g \in Leftovers(ci.tasks[1]) :
                      task' = Allocated(ci.tasks[1], g)
           /\ secret' = ci.secret
    /\ valid' = [j \in 1..Len(task'.base_objects) |-> FALSE]
    /\ found' \in [1..Len(task'.object_reqs) -> 0..MaxGarbage]
    /\ pc' = "idle"
    /\ ret' = URSULA_CHECK_NO_ERROR
    /\ UNCHANGED <<config, file, call, locals, result, result_code, exit>>

\* init frees the checker and returns BadParameters
InitFails ==
    /\ pc = "init"
    /\ cyberiada_ursula_log_checker_init(config).res # URSULA_CHECK_NO_ERROR
    /\ pc' = "init_failed"
    /\ ret' = URSULA_CHECK_BAD_PARAMETERS
    /\ UNCHANGED <<checker, scratch, file, call, locals, result, result_code,
                   exit>>

\* the loader has written past the conditions array: the process may die
InitOverflow ==
    /\ pc = "init"
    /\ cyberiada_ursula_log_checker_init(config).overflow
    /\ pc' = "crash"
    /\ exit' = "heap_overflow"
    /\ UNCHANGED <<checker, scratch, file, call, locals, result, result_code,
                   ret>>

\* the load of a task is given up and its entries are released: free() is
\* handed a pointer that was never written, and the process may die
InitFreesGarbage ==
    /\ pc = "init"
    /\ cyberiada_ursula_log_checker_init(config).garbage
    /\ pc' = "crash"
    /\ exit' = "free_garbage"
    /\ UNCHANGED <<checker, scratch, file, call, locals, result, result_code,
                   ret>>

NextLoad == InitChecker \/ InitFails \/ InitOverflow \/ InitFreesGarbage

LoadSpec == InitLoad /\ [][NextLoad]_vars

(***************************************************************************)
(* Properties                                                              *)
(***************************************************************************)
ConditionIndexes == 0..(Len(task.conditions) - 1)
ObjectIndexes == 0..(objects_count - 1)

\* the step on which a call that entered the loop returns
Returns == pc = "run" /\ pc' = "done"

\* C1: no-later-wins precedence: for condition indexes a < b and an actor k,
\* once cond_matrix[b][k] is 1 at the start of an event, a cell
\* cond_matrix[a][k] that is still 0 is not set by that event (and, the cell
\* (b, k) staying set, by no later one).
C1_NoLaterWins ==
    [][(~IsNull(cond_matrix) /\ ~IsNull(cond_matrix')) =>
        \A k \in ObjectIndexes : \A a \in ConditionIndexes :
            \A b \in (a + 1)..(Len(task.conditions) - 1) :
                (cond_matrix[b][k] = 1 /\ cond_matrix[a][k] = 0)
                    => (cond_matrix'[a][k] = 0 /\ cond_matrix'[b][k] = 1)]_vars

\* C1 witness: after an event, condition a holds of the world state with
\* actor k, yet (a, k) is 0 because a later row b already has k set.
C1_Witness ==
    /\ pc = "run" /\ state = "l" /\ ~IsNull(cond_matrix)
    /\ \E a \in ConditionIndexes : \E b \in (a + 1)..(Len(task.conditions) - 1) :
        LET t == cyberiada_test_condition(task.conditions[a + 1], objects,
                    objects_count, <<>>, 0, <<>>, 0, FALSE)
        IN  /\ task.conditions[a + 1].type \in ScanKinds
            /\ t.found
            /\ cond_matrix[a][t.primary_index] = 0
            /\ cond_matrix[b][t.primary_index] = 1

\* C2: matrix monotonicity: the matrix is created with every cell 0 and from
\* then to the end of the call every cell only changes from 0 to 1.
C2_Monotonic ==
    [][/\ (IsNull(cond_matrix) /\ ~IsNull(cond_matrix')) =>
            \A r \in 0..(MAX_CONDITIONS - 1) :
                \A k \in 0..(objects_count' - 1) : cond_matrix'[r][k] = 0
       /\ (~IsNull(cond_matrix) /\ ~IsNull(cond_matrix')) =>
            \A r \in 0..(MAX_CONDITIONS - 1) : \A k \in ObjectIndexes :
                /\ cond_matrix'[r][k] \in {0, 1}
                /\ cond_matrix[r][k] = 1 => cond_matrix'[r][k] = 1]_vars

\* C2 witness: a matrix with a set cell and a clear cell, read by a further
\* event (two tail lines have been consumed).
C2_Witness ==
    /\ pc = "run" /\ state = "l" /\ ~IsNull(cond_matrix) /\ ntail = MaxTail
    /\ pos = Len(log)
    /\ \E r \in ConditionIndexes : \E k \in ObjectIndexes : cond_matrix[r][k] = 1
    /\ \E r \in ConditionIndexes : \E k \in ObjectIndexes : cond_matrix[r][k] = 0

\* C3: on a NoError return that reached the event phase, bit a of the result
\* is the OR over the objects k of cond_matrix[a][k] at the end of the loop.
C3_ResultIsRowOr ==
    [][(Returns /\ ret' = URSULA_CHECK_NO_ERROR /\ ~IsNull(cond_matrix)) =>
        \A a \in ConditionIndexes :
            (Bit(result', a) = 1) <=>
                (\E k \in ObjectIndexes : cond_matrix[a][k] = 1)]_vars

\* C3 witness: a NoError return with bit 1 set and bit 0 clear.
C3_Witness ==
    pc = "done" /\ exit = "ok" /\ ret = URSULA_CHECK_NO_ERROR /\ result = 2

\* C4: bit b of the result reports the condition whose number n is b + 1.
C4_BitIsOrdinal ==
    (pc = "done" /\ ret = URSULA_CHECK_NO_ERROR) =>
        \A b \in 0..(MAX_CONDITIONS - 1) :
            Bit(result, b) = 1 =>
                /\ b < Len(task.conditions)
                /\ task.conditions[b + 1].n = b + 1

\* C5: whatever the return code, the result byte written has bit 7 clear and
\* no bit at or above conditions_count set.
C5_ValidFlags ==
    pc = "done" =>
        /\ result \in 0..127
        /\ \A b \in Len(task.conditions)..7 : Bit(result, b) = 0

\* C5 witness: a task of seven conditions returns with bits 0..6 all set.
C5_Witness ==
    /\ pc = "done" /\ exit = "ok"
    /\ Len(task.conditions) = MAX_CONDITIONS
    /\ result = 127

\* the previous call had the same arguments as this one (the checker, the
\* task and the log file are the same throughout)
SameInputs == last # <<>> /\ last[1].args = args /\ last[1].salt = salt

\* C6: idempotence: two calls in a row with the same task, salt and log give
\* the same return code, result byte and signature.
C6_Idempotent ==
    (pc = "done" /\ SameInputs) =>
        /\ ret = last[1].ret
        /\ result = last[1].result
        /\ result_code = last[1].result_code

\* the matching of the scene as the specification states it: every base
\* object has a matching object and every requirement's count is in range
SceneSatisfies(objs, n) ==
    /\ \A j \in 1..Len(task.base_objects) :
        \E o \in 0..(n - 1) : BaseMatches(task.base_objects[j], objs[o])
    /\ \A j \in 1..Len(task.object_reqs) :
        LET c == Cardinality({o \in 0..(n - 1) :
                    /\ objs[o].type = task.object_reqs[j].type
                    /\ objs[o].class = task.object_reqs[j].class})
        IN  /\ task.object_reqs[j].minimum <= c
            /\ c <= task.object_reqs[j].limit

\* C7: check_log returns NoError only if the objects it has read from the log
\* (none, when the log has no scene) satisfy every base object and every
\* requirement of the task.
C7_NoErrorOnlyIfSceneValid ==
    [][(Returns /\ ret' = URSULA_CHECK_NO_ERROR) =>
        SceneSatisfies(objects, objects_count)]_vars

\* C8: validation passes only if the base objects can be matched to distinct
\* objects of the scene.
C8_DistinctMatches ==
    [][(pc = "run" /\ IsNull(cond_matrix) /\ ~IsNull(cond_matrix')) =>
        \E f \in [1..Len(task.base_objects) -> ObjectIndexes] :
            /\ \A j1, j2 \in 1..Len(task.base_objects) :
                    j1 # j2 => f[j1] # f[j2]
            /\ \A j \in 1..Len(task.base_objects) :
                    BaseMatches(task.base_objects[j], objects'[f[j]])]_vars

\* the error sites that report a violation of the log grammar
FormatExits ==
    {"pos_unknown", "pos_coords", "attacker", "target", "attacked_target",
     "died_id", "unknown_event"}

\* C9: a violation of the log grammar is returned as FormatError.
C9_FormatError ==
    (pc = "done" /\ exit \in FormatExits) => ret = URSULA_CHECK_FORMAT_ERROR

\* C10: on every failing return the result byte is 0 and no signature is
\* produced; a signature is produced only on a NoError return.
C10_ErrorSentinel ==
    pc = "done" =>
        /\ ret # URSULA_CHECK_NO_ERROR =>
                (result = URSULA_CHECK_RESULT_ERROR /\ result_code = <<>>)
        /\ result_code # <<>> => ret = URSULA_CHECK_NO_ERROR

\* C10 witness: a failing return of a call whose caller passed a result
\* variable still holding the non-zero result of the call before.
C10_Witness ==
    /\ pc = "done" /\ ret # URSULA_CHECK_NO_ERROR
    /\ last # <<>> /\ last[1].result # 0
    /\ exit \in {"req", "unknown_event"}

\* the line this step of the loop reads: <<line>>, or <<>> at the end of file
LineRead ==
    IF pos < Len(log) THEN <<log[pos + 1]>>
    ELSE IF Len(log') > Len(log) THEN <<log'[Len(log')]>>
    ELSE <<>>

\* the six event forms of state 'l'
Recognized(l) ==
    IsPositionLine(l) \/ l.k \in {"attack", "attacked", "died", "over", "end"}

C12_EofClosesLoop ==
    [][(pc = "run" /\ state = "l" /\ LineRead = <<>> /\ pc' # "run") =>
        /\ pc' = "done"
        /\ ret' = URSULA_CHECK_NO_ERROR
        /\ result' = ReduceMatrix(cond_matrix, Len(task.conditions),
                                  objects_count)
        /\ result_code' = generate_code(secret, task.name, salt, result')]_vars

\* C12 witness: a first call over a log with events and no Session ended
\* line read the whole file and returned a non-zero result.
C12_Witness ==
    /\ pc = "done" /\ exit = "ok" /\ calls = 1 /\ closed /\ ntail > 0
    /\ \A k \in 1..Len(log) : log[k].k # "end"
    /\ result # 0

\* C13: reading Session ended in state 'l' ends the call at once: NoError,
\* the result is the reduction of the matrix as of that line, and nothing of
\* the file after that line is read.
C13_SessionEndedHalts ==
    [][(pc = "run" /\ state = "l" /\ LineRead = <<SessionEndedLine>>) =>
        /\ pc' = "done"
        /\ ret' = URSULA_CHECK_NO_ERROR
        /\ result' = ReduceMatrix(cond_matrix, Len(task.conditions),
                                  objects_count)
        /\ log' \in {log, Append(log, SessionEndedLine)}
        /\ closed' = closed
        /\ UNCHANGED scratch]_vars

\* C13 witness: the log holds an unknown event line after Session ended, and
\* the call returned NoError with the result of the events before it.
C13_Witness ==
    /\ pc = "done" /\ exit = "ok" /\ ~closed /\ result # 0
    /\ \E k \in 1..(Len(log) - 1) :
        log[k] = SessionEndedLine /\ log[k + 1] = UnknownEventLine

\* a GameWon condition that a Game Over: Win event makes match: it has no
\* AND branch, or its AND branch (tested with no event payload) holds of the
\* objects
WinMatches(cond) ==
    /\ cond.type = "win"
    /\ \/ cond.second_cond = <<>>
       \/ /\ cond.second_cond[1].type \in ScanKinds
          /\ ScanHits(cond.second_cond[1], objects, objects_count) # {}

\* the task has one condition, a GameWon with no AND branch
OnlyGameWon ==
    /\ Len(task.conditions) = 1
    /\ task.conditions[1].type = "win"
    /\ task.conditions[1].second_cond = <<>>

\* C14: a Game Over: Win event does not end the call and, once its test of
\* the conditions is through, has set in every matching GameWon row i each
\* column k that no later row j > i holds at the start of the event; a Game
\* Over with another value changes nothing; and a task whose only condition
\* is GameWon returns result 1 once such an event has been read.
C14_GameWonCredit ==
    [][/\ (pc = "run" /\ state = "l" /\ LineRead # <<>>
                /\ LineRead[1].k = "over") =>
            IF LineRead[1].value = "Win"
            THEN /\ pc' # "done"
                 /\ pc' = "run" =>
                     \A r \in ConditionIndexes :
                        WinMatches(task.conditions[r + 1]) =>
                            \A k \in ObjectIndexes :
                                (\A j \in (r + 1)..(Len(task.conditions) - 1) :
                                    cond_matrix[j][k] = 0)
                                => cond_matrix'[r][k] = 1
            ELSE /\ pc' = "run" /\ pos' = pos + 1
                 /\ UNCHANGED <<objects, cond_matrix, scratch, outs>>
       /\ (Returns /\ ret' = URSULA_CHECK_NO_ERROR /\ ~IsNull(cond_matrix)
                /\ OnlyGameWon
                /\ \E k \in 1..pos : log[k] = GameOverLine("Win")) =>
            result' = 1]_vars

\* C14 witness: a Game Over: Win event has just credited a GameWon row in one
\* column and left it clear in another that a later row already held.
C14_Witness ==
    /\ pc = "run" /\ state = "l" /\ ~IsNull(cond_matrix)
    /\ pos > 0 /\ log[pos] = GameOverLine("Win")
    /\ \E r \in ConditionIndexes :
        /\ task.conditions[r + 1].type = "win"
        /\ \E k1, k2 \in ObjectIndexes :
            /\ cond_matrix[r][k1] = 1
            /\ cond_matrix[r][k2] = 0
            /\ \E j \in (r + 1)..(Len(task.conditions) - 1) :
                    cond_matrix[j][k2] = 1

\* the task of the scenario: Proximity(player, mob c, d) then Destroyed(mob c)
OrderedPrecedenceTask ==
    /\ Len(task.conditions) = 2
    /\ task.conditions[1].type = "proxy"
    /\ task.conditions[1].primary_obj_type = "player"
    /\ task.conditions[1].secondary_obj_type = "mob"
    /\ task.conditions[2].type = "destroy"
    /\ task.conditions[2].primary_obj_type = "mob"
    /\ task.conditions[2].primary_obj_class =
            task.conditions[1].secondary_obj_class
    /\ task.conditions[1].second_cond = <<>>
    /\ task.conditions[2].second_cond = <<>>

\* the log of the scenario: one mob of that class within the distance, a
\* position update that keeps it there, then its died event, end of file
OrderedPrecedenceLog ==
    /\ closed
    /\ log = << StartLine(<<0, 0>>), HeaderLine, RowA, HLine,
                PosLine(<< PosEntry("a", TRUE, <<0, 0>>) >>), DiedLine("a") >>
    /\ RowA.class = task.conditions[1].secondary_obj_class
    /\ DistLeq(<<0, 0>>, <<0, 0>>, task.conditions[1].argument)

\* C15: the Ordered precedence scenario returns NoError with result 3.
C15_OrderedPrecedence ==
    (pc = "done" /\ calls = 1 /\ OrderedPrecedenceTask /\ OrderedPrecedenceLog)
        => (ret = URSULA_CHECK_NO_ERROR /\ result = 3)

\* the condition rows of the task CSV the config file names
ConditionRows ==
    LET T == {k \in 1..Len(config) : config[k].k = "task"}
        csv == IF T = {} THEN <<>> ELSE config[SetMin(T)].csv
    IN  SelectSeq(csv, LAMBDA row : row.tag = "c")

\* C16: init succeeds only for a task CSV with 1 to 7 conditions: with no
\* condition row, or with 8 or more distinct condition numbers, init returns
\* BadParameters, and a loaded task has 1 <= conditions_count <= 7.
C16_ConditionCount ==
    LET DistinctNumbers == {ConditionRows[k].n : k \in 1..Len(ConditionRows)}
    IN  /\ (pc # "init" /\ (ConditionRows = <<>> \/ Cardinality(DistinctNumbers) >= 8))
                => (pc = "init_failed" /\ ret = URSULA_CHECK_BAD_PARAMETERS)
        /\ pc = "idle" => Len(task.conditions) \in 1..MAX_CONDITIONS

\* C17: the stored numbers of a loaded task are strictly increasing, and a
\* CSV with a condition row numbered below the condition inserted before it
\* is rejected with BadParameters.
C17_NumbersIncrease ==
    LET HasDescent ==
            \E k \in 2..Len(ConditionRows) :
                /\ ConditionRows[k].n > 0
                /\ ConditionRows[k].n < Byte(ConditionRows[k - 1].n)
    IN  /\ pc = "idle" =>
                \A a, b \in 1..Len(task.conditions) :
                    a < b => task.conditions[a].n < task.conditions[b].n
        /\ (pc # "init" /\ HasDescent)
                => (pc = "init_failed" /\ ret = URSULA_CHECK_BAD_PARAMETERS)

\* C18: after a successful init the secret has been set exactly once.
C18_SecretSetOnce ==
    pc = "idle" =>
        /\ secret # NULL
        /\ Cardinality({k \in 1..Len(config) : config[k].k = "secret"}) = 1

\* C19: signature determinism: a successful check returns the digest of
\* secret:task:salt:result, so two successful checks that agree on the salt
\* and the result byte (the secret and the task are the checker's) return
\* the same signature.
C19_SignatureDeterminism ==
    (pc = "done" /\ ret = URSULA_CHECK_NO_ERROR) =>
        /\ result_code = <<"sha256", secret, task.name, salt, result>>
        /\ (last # <<>> /\ last[1].ret = URSULA_CHECK_NO_ERROR
                /\ last[1].salt = salt /\ last[1].result = result)
            => result_code = last[1].result_code

\* C19 witness: two successful checks in a row with the same salt and the
\* same non-zero result byte.
C19_Witness ==
    /\ pc = "done" /\ ret = URSULA_CHECK_NO_ERROR
    /\ last # <<>> /\ last[1].ret = URSULA_CHECK_NO_ERROR
    /\ last[1].salt = salt /\ last[1].result = result
    /\ result # 0
    /\ result_code # <<>>

\* C20: on an attack, attacked or died event, a cell newly set in the row of
\* an Attacked, Damaged or Destroyed condition is in the column of the
\* event's primary object: the attacker, the attacked target, the victim.
C20_EventPrimaryCredited ==
    [][(pc = "run" /\ state = "l" /\ pc' = "run" /\ LineRead # <<>>
            /\ LineRead[1].k \in {"attack", "attacked", "died"}) =>
        LET l == LineRead[1]
            who == CASE l.k = "attack" -> l.a
                     [] l.k = "attacked" -> l.t
                     [] l.k = "died" -> l.v
            primary == EventObject(objects, objects_count, who)
        IN  \A r \in ConditionIndexes : \A k \in ObjectIndexes :
                (/\ task.conditions[r + 1].type \in {"attack", "damage", "destroy"}
                 /\ cond_matrix[r][k] = 0
                 /\ cond_matrix'[r][k] = 1)
                    => k = primary[1]]_vars

\* the primary object of the event in the line l: the attacker, the attacked
\* target or the victim; <<>> for every other line
EventPrimary(l) ==
    CASE l.k = "attack" -> EventObject(objects, objects_count, l.a)
      [] l.k = "attacked" -> EventObject(objects, objects_count, l.t)
      [] l.k = "died" -> EventObject(objects, objects_count, l.v)
      [] OTHER -> <<>>

\* the cell (r, k) is set by this step
NewCell(r, k) == cond_matrix[r][k] = 0 /\ cond_matrix'[r][k] = 1

\* C21: the primary filter of Moving, Damaged and Destroyed is the one of the
\* other kinds: such a condition (without AND branch) is credited only when
\* the object tested has the condition's primary type and, unless it is the
\* Player, the condition's primary class.
C21_PrimaryFilter ==
    [][(pc = "run" /\ state = "l" /\ pc' = "run" /\ LineRead # <<>>) =>
        \A r \in ConditionIndexes : \A k \in ObjectIndexes :
            LET cond == task.conditions[r + 1]
                primary == EventPrimary(LineRead[1])
            IN  (NewCell(r, k) /\ cond.second_cond = <<>>) =>
                    CASE cond.type = "move" ->
                            TypeClassEq(objects'[k], cond.primary_obj_type,
                                        cond.primary_obj_class)
                      [] cond.type \in {"damage", "destroy"} ->
                            /\ primary # <<>>
                            /\ TypeClassEq(objects[primary[1]],
                                           cond.primary_obj_type,
                                           cond.primary_obj_class)
                      [] OTHER -> TRUE]_vars

\* C22: AND nesting is a conjunction: a cell of a condition with an AND
\* branch is set at an event only if the outer condition matches the event
\* and the nested condition holds of the positions as the event leaves them.
C22_AndIsConjunction ==
    [][(pc = "run" /\ state = "l" /\ pc' = "run" /\ LineRead # <<>>) =>
        LET l == LineRead[1]
            primary == EventPrimary(l)
            secondary == IF l.k = "attack"
                         THEN EventObject(objects, objects_count, l.t)
                         ELSE <<>>
            argument == IF l.k \in {"attack", "attacked"} THEN l.dmg ELSE 0
            Primary(c, o) ==
                TypeClassEq(o, c.primary_obj_type, c.primary_obj_class)
            Holds(c) ==
                CASE c.type \in {"proxy", "approach", "retire"} ->
                        ScanHits(c, objects', objects_count) # {}
                  [] c.type = "move" ->
                        \E o \in ObjectIndexes :
                            /\ Primary(c, objects'[o])
                            /\ Dist2(objects'[o].pos, objects'[o].prev_pos) > 0
                  [] OTHER -> FALSE
            Matches(c) ==
                CASE c.type \in ScanKinds -> Holds(c)
                  [] c.type = "attack" ->
                        EventHit(c, objects', primary, secondary, argument, FALSE)
                  [] c.type = "damage" ->
                        /\ primary # <<>>
                        /\ Primary(c, objects'[primary[1]])
                        /\ c.argument >= argument
                  [] c.type = "destroy" ->
                        primary # <<>> /\ Primary(c, objects'[primary[1]])
                  [] c.type = "win" -> l.k = "over" /\ l.value = "Win"
        IN  \A r \in ConditionIndexes : \A k \in ObjectIndexes :
                LET cond == task.conditions[r + 1]
                IN  (NewCell(r, k) /\ cond.second_cond # <<>>) =>
                        (Matches(cond) /\ Holds(cond.second_cond[1]))]_vars

\* C23: a condition whose AND branch is of kind Attacked, Damaged, Destroyed
\* or GameWon is never credited: its matrix row stays all zero and its
\* result bit stays 0.
C23_EventAndNeverCredited ==
    \A r \in ConditionIndexes :
        LET cond == task.conditions[r + 1]
        IN  (/\ cond.second_cond # <<>>
             /\ cond.second_cond[1].type \in {"attack", "damage", "destroy", "win"})
            => /\ ~IsNull(cond_matrix) =>
                    \A k \in ObjectIndexes : cond_matrix[r][k] = 0
               /\ (pc = "done" /\ ret = URSULA_CHECK_NO_ERROR) =>
                    Bit(result, r) = 0

\* C23 witness: Game Over: Win has just been read with the Player next to the
\* mob, so the outer Proximity of "proxy AND win" matched.
C23_Witness ==
    /\ pc = "run" /\ state = "l" /\ pos > 0
    /\ log[pos] = GameOverLine("Win")
    /\ \E r \in ConditionIndexes :
        LET cond == task.conditions[r + 1]
        IN  /\ cond.type = "proxy"
            /\ cond.second_cond # <<>>
            /\ cond.second_cond[1].type = "win"
            /\ ScanHits(cond, objects, objects_count) # {}

\* C24: at every event that tests the conditions, a Proximity condition
\* (without AND branch) matches exactly when some ordered pair of distinct
\* indexes (i, j) has objects[i] matching A, objects[j] matching B and
\* dist <= d, and the column credited is the smallest such i.
C24_ProximityPairs ==
    [][(/\ pc = "run" /\ state = "l" /\ pc' = "run" /\ LineRead # <<>>
        /\ \/ IsPositionLine(LineRead[1])
           \/ LineRead[1].k \in {"attack", "attacked", "died"}
           \/ LineRead[1] = GameOverLine("Win")) =>
        \A r \in ConditionIndexes :
            LET cond == task.conditions[r + 1]
                d == cond.argument
                I == {a \in ObjectIndexes : \E b \in ObjectIndexes :
                        /\ a # b
                        /\ TypeClassEq(objects'[a], cond.primary_obj_type,
                                       cond.primary_obj_class)
                        /\ TypeClassEq(objects'[b], cond.secondary_obj_type,
                                       cond.secondary_obj_class)
                        /\ d >= 0
                        /\ Dist2(objects'[a].pos, objects'[b].pos) <= d * d}
            IN  (cond.type = "proxy" /\ cond.second_cond = <<>>) =>
                    /\ \A k \in ObjectIndexes :
                            NewCell(r, k) =>
                                (I # {} /\ \A a \in I : k <= a)
                    /\ \A k \in I :
                            ((\A a \in I : k <= a)
                                /\ \A j \in (r + 1)..(Len(task.conditions) - 1) :
                                        cond_matrix[j][k] = 0)
                            => cond_matrix'[r][k] = 1]_vars

\* C24 witness: two mobs of the class are within the distance of the Player
\* and the row of "proxy mob z -> player" holds the column of the first.
C24_Witness ==
    /\ pc = "run" /\ state = "l"
    /\ task.conditions[1].type = "proxy"
    /\ task.conditions[1].primary_obj_type = "mob"
    /\ task.conditions[1].second_cond = <<>>
    /\ objects_count = 3
    /\ objects[0].class = "z" /\ objects[1].class = "z"
    /\ DistLeq(objects[0].pos, objects[2].pos, 1)
    /\ DistLeq(objects[1].pos, objects[2].pos, 1)
    /\ cond_matrix[0][0] = 1 /\ cond_matrix[0][1] = 0

\* C25: a position event moves exactly the objects its entries name
\* (prev_pos := old pos, pos := the coordinates parsed from the entry) and
\* tests the conditions once, on the positions as all the entries leave them;
\* attack, attacked, died and Game Over events change no object.
C25_PositionFrame ==
    [][(pc = "run" /\ state = "l" /\ pc' = "run" /\ LineRead # <<>>) =>
        LET l == LineRead[1]
            Named(o) == {k \in 1..Len(l.ents) :
                            PositionObject(objects, objects_count,
                                           l.ents[k].who) = <<o>>}
        IN  /\ IsPositionLine(l) =>
                /\ \A o \in ObjectIndexes :
                    /\ Named(o) = {} =>
                            /\ objects'[o].pos = objects[o].pos
                            /\ objects'[o].prev_pos = objects[o].prev_pos
                    /\ \A k \in Named(o) :
                        Named(o) = {k} =>
                            /\ objects'[o].prev_pos = objects[o].pos
                            /\ objects'[o].pos = EntryCoords(l.ents[k])
                /\ cond_matrix' =
                     cyberiada_test_all_conditions(task, objects',
                        objects_count, cond_matrix, <<>>, 0, <<>>, 0, FALSE)
            /\ l.k \in {"attack", "attacked", "died", "over"} =>
                objects' = objects]_vars

\* C25 witness: a position line with entries for the Player and for a has
\* been applied in a scene that holds a second mob, and a row is credited.
C25_Witness ==
    /\ pc = "run" /\ state = "l" /\ pos > 0
    /\ log[pos].k = "pos" /\ Len(log[pos].ents) = 2
    /\ objects_count = 3
    /\ objects[0].pos # objects[0].prev_pos
    /\ objects[1].pos = objects[1].prev_pos
    /\ \E r \in ConditionIndexes : \E k \in ObjectIndexes :
            cond_matrix[r][k] = 1

\* C26: when the scene is complete the Player object has pos = prev_pos =
\* the Player Start Position, in both coordinates.
C26_PlayerStartsAtRest ==
    [][(pc = "run" /\ state = "o" /\ state' = "l") =>
        /\ objects'[objects_count - 1].type = "player"
        /\ objects'[objects_count - 1].pos = player_pos
        /\ objects'[objects_count - 1].prev_pos = player_pos]_vars

\* the scene header the re-read pass recognises: the first one in the file
FirstHeader ==
    LET H == {k \in 1..Len(log) : log[k].k = "header"}
    IN  IF H = {} THEN 0 ELSE SetMin(H)

\* C27 (as stated): the line that closes the scene is the second --- after
\* the header: an earlier --- closes the header band, and the rows between
\* the two are the runtime objects.
C27_HeaderBand ==
    [][(pc = "run" /\ state = "o" /\ state' = "l") =>
        \E d \in (FirstHeader + 1)..pos :
            /\ log[d].k = "hline"
            /\ objects_count - 1 = pos - d
            /\ \A m \in 0..(pos - d - 1) : log[d + 1 + m].k = "row"]_vars

\* C27 (amended): the line that closes the scene is the first --- after the
\* header; the lines between the header and it are the object rows, and every
\* one of them is a runtime object, in order, followed by the Player.
C27_RowsUpToFirstDelimiter ==
    [][(pc = "run" /\ state = "o" /\ state' = "l") =>
        LET h == FirstHeader
        IN  /\ h > 0
            /\ log[pos + 1].k = "hline"
            /\ objects_count - 1 = pos - h
            /\ \A m \in 0..(pos - h - 1) :
                LET row == log[h + 1 + m]
                IN  /\ row.k = "row"
                    /\ objects'[m].id = row.id
                    /\ objects'[m].class = row.class
                    /\ objects'[m].type = LogObjectType(row.ltype)
                    /\ objects'[m].pos = row.pos
                    /\ objects'[m].hp = row.hp
                    /\ objects'[m].damage = row.damage
            /\ objects'[objects_count - 1].type = "player"]_vars

\* C27 witness: a scene of two rows has been read and validated.
C27_Witness ==
    /\ pc = "run" /\ state = "l" /\ pos = 5
    /\ log[2].k = "header" /\ log[3].k = "row" /\ log[4].k = "row"
    /\ log[5].k = "hline"
    /\ objects_count = 3
    /\ objects[0].id = "a" /\ objects[1].id = "b"

C29_ScratchClean ==
    (pc = "run" /\ state = "o" /\ ~IsNull(objects)) =>
        /\ \A j \in 1..Len(task.base_objects) : ~valid[j]
        /\ \A j \in 1..Len(task.object_reqs) : found[j] = 0

\* C30: in the re-read pass every scene row is written at an index
\* i <= objects_count - 2, the last slot being the Player's.
C30_RowsWithinArray ==
    [][(/\ pc = "run" /\ state = "o" /\ ~IsNull(objects)
        /\ LineRead # <<>> /\ HasBars(LineRead[1])) =>
            i <= objects_count - 2]_vars

\* C31: every write to conditions[conditions_cnt] in the second pass of the
\* loader happens with conditions_cnt < conditions_count, whatever the order
\* of the condition numbers in the CSV (2,1 and 1,2,1 included).
C31_WritesWithinConditions ==
    pc # "init" => ~cyberiada_ursula_log_checker_init(config).overflow

\* C32: each condition of a loaded task has at most one AND branch, and that
\* branch has no AND branch of its own, also when three or more rows share
\* a condition number.
C32_AndBranchIsLeaf ==
    pc = "idle" =>
        \A k \in 1..Len(task.conditions) :
            LET cond == task.conditions[k]
            IN  \/ cond.second_cond = <<>>
                \/ /\ Len(cond.second_cond) = 1
                   /\ cond.second_cond[1].second_cond = <<>>

\* C33: for every object requirement of a loaded task the stored 8-bit
\* values satisfy 1 <= minimum <= limit <= 255, whatever pair of positive
\* integers the req row gives (minimum > limit and values of 256 or more
\* included).
C33_RequirementRange ==
    pc = "idle" =>
        \A j \in 1..Len(task.object_reqs) :
            /\ 1 <= task.object_reqs[j].minimum
            /\ task.object_reqs[j].minimum <= task.object_reqs[j].limit
            /\ task.object_reqs[j].limit <= 255

\* C35: init is all-or-nothing: it returns NoError only if every line naming
\* a task loaded its CSV and no second secret line occurred; at the first
\* failing task line or duplicate secret it releases the secret and the
\* tasks loaded so far and returns BadParameters; lines without ':' or with
\* an empty value never cause a failure.
C35_AllOrNothing ==
    LET Loads(line) ==
            cyberiada_ursula_log_task_config(line.csv, line.name).res
                = URSULA_CHECK_NO_ERROR
        Good == /\ \A k \in 1..Len(config) :
                        config[k].k = "task" => Loads(config[k])
                /\ Cardinality({k \in 1..Len(config) :
                                    config[k].k = "secret"}) <= 1
    IN  pc # "init" =>
            IF Good THEN pc = "idle" /\ ret = URSULA_CHECK_NO_ERROR
            ELSE /\ pc = "init_failed" /\ ret = URSULA_CHECK_BAD_PARAMETERS
                 /\ secret = NULL /\ task = NoTask

\* the conditions a < b that the event of this step both finds with
\* *primary_index == k, no row above a holding column k before the event
SameActorPairs ==
    IF ~(pc = "run" /\ state = "l" /\ pc' = "run" /\ LineRead # <<>>) THEN {}
    ELSE IF ~EventPayload(LineRead[1]).ok THEN {}
    ELSE
    LET e == EventPayload(LineRead[1])
        n == Len(task.conditions)
        t[r \in 0..(n - 1)] ==
            cyberiada_test_condition(task.conditions[r + 1], e.objs,
                objects_count, e.primary,
                IF r = 0 THEN (IF e.primary = <<>> THEN 0 ELSE e.primary[1])
                ELSE t[r - 1].primary_index,
                e.secondary, e.argument, e.won)
        Matches(r, k) ==
            t[r].found /\ (task.conditions[r + 1].type = "win"
                            \/ t[r].primary_index = k)
    IN  { c \in ConditionIndexes \X ConditionIndexes \X ObjectIndexes :
            /\ c[1] < c[2]
            /\ Matches(c[1], c[3]) /\ Matches(c[2], c[3])
            /\ \A j \in (c[1] + 1)..(n - 1) : cond_matrix[j][c[3]] = 0 }

\* C34: events are processed in file order and, within one event, the
\* conditions are tested in ascending index order, the precedence check of
\* condition i reading only cells set earlier: if conditions i < j both match
\* the same actor k in one event and no cell (j', k) with j' > i was set
\* before that event, both matrix[i][k] and matrix[j][k] are 1 afterwards.
C34_OrderWithinEvent ==
    [][\A c \in SameActorPairs :
            /\ pos' = pos + 1
            /\ cond_matrix'[c[1]][c[3]] = 1
            /\ cond_matrix'[c[2]][c[3]] = 1]_vars

\* C34 witness: the first Game Over: Win of the log has been processed for
\* a task whose first two conditions are both GameWon, and both rows hold
\* the column of object 0.
C34_Witness ==
    /\ pc = "run" /\ state = "l" /\ pos > 0
    /\ log[pos].k = "over" /\ log[pos].value = "Win"
    /\ \A q \in 1..(pos - 1) : log[q].k # "over"
    /\ Len(task.conditions) >= 2
    /\ task.conditions[1].type = "win" /\ task.conditions[2].type = "win"
    /\ objects_count > 0
    /\ cond_matrix[0][0] = 1 /\ cond_matrix[1][0] = 1

\* C36: check_log terminates on every finite log: the file is rewound at
\* most once per call, only in the counting pass while the objects array is
\* still unallocated, every other step of the loop consumes the next line,
\* and the call ends at the end of the file, Session ended or an error.
C36_Terminates ==
    /\ [][(pc = "run" /\ pc' = "run") =>
            /\ \/ pos' = pos + 1 /\ pos' <= Len(log')
               \/ /\ pos' = 0 /\ state = "o"
                  /\ IsNull(objects) /\ ~IsNull(objects')
            /\ ~IsNull(objects) => ~IsNull(objects')]_vars
    /\ (pc = "run") ~> (pc # "run")

\* C36 witness: a call that went through the rewind has read a log with
\* events to its end and returned.
C36_Witness ==
    /\ pc = "done" /\ exit = "ok" /\ closed /\ ntail = MaxTail
    /\ \E k \in 1..Len(log) : IsPositionLine(log[k])
    /\ \A k \in 1..Len(log) : log[k].k # "end"
    /\ result = 1

====
